---- MODULE Spec2Model ----
(***************************************************************************)
(* Model of the native graphics factory of Avalonia.NativeGraphics         *)
(* (native/factory.cpp): the AvgFactory object, the exported entry point   *)
(* CreateAvaloniaNativeGraphics, and the reference-counted objects the     *)
(* factory hands to the host.                                              *)
(*                                                                         *)
(* factory.cpp includes comimpl.h (ComObject / ComSingleObject /           *)
(* FORWARD_IUNKNOWN) and AvgGlGpu.h (AvgGlGpu, AvgGlRenderTarget).  The     *)
(* definitions that stand for those two headers are written from the       *)
(* design document and are marked as such where they are defined.          *)
(***************************************************************************)
EXTENDS Integers, FiniteSets, Sequences, TLC

\* ---------------------------------------------------------------- bounds
\* Number of objects the process may allocate in one run.
MaxObjects == 3
\* Number of ownership claims the host may hold on one object at a time.
MaxClaims == 2
\* Number of host threads of the concurrent reference-counting runs.
MaxThreads == 2

\* ------------------------------------------------------------- constants
\* The null pointer (factory.cpp:20, :22).
nullptr == 0
\* HRESULT E_INVALIDARG (factory.cpp:21, :23); 0x80070057 as a signed 32-bit value.
E_INVALIDARG == -2147024809
\* HRESULT E_NOINTERFACE, 0x80004002, the negative result of a capability query.
E_NOINTERFACE == -2147467262
\* HRESULT E_FAIL, 0x80004005, the failure status of context construction.
E_FAIL == -2147467259

Ids == 1..MaxObjects
Threads == 1..MaxThreads

\* A GPU context made by another backend family: an IAvgGpu that is no AvgGlGpu.
\* It is the host's object and lives outside the heap of this library.
ForeignGpu == MaxObjects + 1
\* A stale, non-null value found in a caller's output slot before a call.
StaleHandle == MaxObjects + 2

\* The platform surfaces the host can pass (IAvgGlPlatformSurfaceRenderTarget*).
Surfaces == {11}

\* The interface identifiers of the boundary.
IIDs == {"IID_IAvgFactory", "IID_IAvgGpu", "IID_IAvgRenderTarget"}

\* The graphics-API entry points a context binds while it is constructed.
RequiredProcs == {"glGetString", "glGetIntegerv"}
\* An address-resolution delegate, modelled by the set of names it resolves.
Resolvers == {RequiredProcs, {"glGetString"}}

VARIABLES
    heap,    \* the library's objects: id -> object record
    claims,  \* per object: the claims the host holds (handed out, not yet released)
    last,    \* the most recent call of the host, its arguments and its results
    script,  \* progress of the run along the end-to-end scenario
    pc,      \* per host thread: the reference-count call it has in flight
    tally    \* per object of a concurrent run: initial count, completed
             \* increments, completed decrements

vars == <<heap, claims, last, script, pc, tally>>

\* ------------------------------------------------- reference-counted base
\* A slot of the heap no object was allocated in.
NoObject ==
    [kind |-> "none", state |-> "unallocated", refCount |-> 0, deletes |-> 0,
     gpu |-> nullptr, surface |-> nullptr, gles |-> FALSE, init |-> "NA"]

\* delete: the storage is gone; only the identity of the object and the number
\* of times it was deleted remain to be spoken of.
Deleted(obj) ==
    [NoObject EXCEPT !.kind = obj.kind, !.state = "deleted", !.init = obj.init,
                     !.deletes = obj.deletes + 1]

\* ComObject's constructor: the count of a new object is zero ("created with an
\* implicit count of zero").
ComObject_ctor(kind) ==
    [NoObject EXCEPT !.kind = kind, !.state = "live"]

\* Faulty variant: a plain read followed by a plain write, the new value computed
\* from what the calling thread read when its call began.
InterlockedAdd_Torn(cur, seen, d) == seen + d

\* An atomic read-modify-write of the count: the new value is computed from the
\* value the counter holds when the update takes effect (cur), never from a
\* value the calling thread read earlier (seen).
InterlockedAdd(cur, seen, d) == cur + d

\* ComObject::AddRef: increment the count.
ComObject_AddRef(obj) ==
    [obj EXCEPT !.refCount = InterlockedAdd(obj.refCount, obj.refCount, 1)]

\* ComObject::Release: decrement the count; delete the object when the count
\* reaches zero.  A count of zero decremented becomes the all-ones pattern (-1
\* here), which is not zero, so nothing is deleted.
ReleaseAt(obj, seen) ==
    LET n == InterlockedAdd(obj.refCount, seen, -1)
    IN  IF n = 0
        THEN Deleted(obj)
        ELSE [obj EXCEPT !.refCount = n]

ComObject_Release(obj) == ReleaseAt(obj, obj.refCount)

\* Faulty variant: the class declared with another interface's identifier.
AvgFactory_IID_Wrong == "IID_IAvgGpu"

\* ComSingleObject<IAvgFactory, &IID_IAvgFactory>: the identifier AvgFactory answers.
AvgFactory_IID == "IID_IAvgFactory"

\* The identifiers each concrete class answers to a capability query.
InterfaceMap(kind) ==
    CASE kind = "AvgFactory" -> {"IID_IUnknown", AvgFactory_IID}
      [] kind = "AvgGlGpu" -> {"IID_IUnknown", "IID_IAvgGpu"}
      [] kind = "AvgGlRenderTarget" -> {"IID_IUnknown", "IID_IAvgRenderTarget"}
      [] OTHER -> {}

\* ----------------------------------------------------------------- heap
Allocated(h) == {i \in Ids : h[i].state # "unallocated"}
Live(h) == {i \in Ids : h[i].state = "live"}
HasFree(h) == Allocated(h) # Ids
\* operator new: the next free slot.
NextId(h) == CHOOSE i \in Ids \ Allocated(h) : \A j \in Ids \ Allocated(h) : i <= j

\* The host may call a method of an object it holds a claim on and that exists.
HostHolds(o) == heap[o].state = "live" /\ claims[o] > 0

NoCall ==
    [op |-> "none", self |-> nullptr, gpu |-> nullptr, gl |-> nullptr,
     iid |-> "", gles |-> FALSE, resolver |-> {}, result |-> 0,
     slotBefore |-> nullptr, slotAfter |-> nullptr, made |-> nullptr,
     refBefore |-> 0, gpuRefBefore |-> 0, allocBefore |-> 0]

Idle == [op |-> "idle", obj |-> nullptr, seen |-> 0]

NoTally == [base |-> 0, incs |-> 0, decs |-> 0]

\* The end-to-end scenario has not begun.
ScriptStart == [stage |-> "start", f |-> nullptr, g |-> nullptr, r |-> nullptr]

\* History of the run against the end-to-end scenario: entry point, CreateGlGpu
\* with a valid resolver, CreateGlGpuRenderTarget with that context and a valid
\* surface, then Release of the render target, of the context and of the
\* factory, with GetVersion allowed anywhere.  Any other call leaves the scenario.
Advance(s, c) ==
    CASE c.op = "GetVersion" -> s
      [] c.op = "CreateAvaloniaNativeGraphics" /\ s.stage = "start" ->
            [s EXCEPT !.stage = "factory", !.f = c.made]
      [] c.op = "CreateGlGpu" /\ s.stage = "factory" /\ c.self = s.f
            /\ c.resolver = RequiredProcs ->
            [s EXCEPT !.stage = "gpu", !.g = c.made]
      [] c.op = "CreateGlGpuRenderTarget" /\ s.stage = "gpu" /\ c.self = s.f
            /\ c.gpu = s.g /\ c.gl # nullptr ->
            [s EXCEPT !.stage = "rt", !.r = c.made]
      [] c.op = "Release" /\ s.stage = "rt" /\ c.self = s.r ->
            [s EXCEPT !.stage = "released_rt"]
      [] c.op = "Release" /\ s.stage = "released_rt" /\ c.self = s.g ->
            [s EXCEPT !.stage = "released_gpu"]
      [] c.op = "Release" /\ s.stage = "released_gpu" /\ c.self = s.f ->
            [s EXCEPT !.stage = "done"]
      [] OTHER -> [s EXCEPT !.stage = "off"]

\* ------------------------------------------------------------ entry point
\* Faulty variant: the factory returned as constructed, without f->AddRef().
EntryPointObject_NoAddRef == ComObject_ctor("AvgFactory")

\* CreateAvaloniaNativeGraphics: new AvgFactory(); f->AddRef(); return f.
EntryPointObject == ComObject_AddRef(ComObject_ctor("AvgFactory"))

CreateAvaloniaNativeGraphics ==
    /\ HasFree(heap)
    /\ LET id == NextId(heap)
           c == [NoCall EXCEPT !.op = "CreateAvaloniaNativeGraphics",
                               !.made = id, !.result = id,
                               !.allocBefore = Cardinality(Allocated(heap))]
       IN  /\ heap' = [heap EXCEPT ![id] = EntryPointObject]
           /\ claims' = [claims EXCEPT ![id] = 1]
           /\ last' = c
           /\ script' = Advance(script, c)
    /\ UNCHANGED <<pc, tally>>

\* ---------------------------------------------------------------- factory
\* AvgFactory::GetVersion: return 0.
GetVersion_Result == 0

GetVersion(self) ==
    /\ HostHolds(self) /\ heap[self].kind = "AvgFactory"
    /\ LET c == [NoCall EXCEPT !.op = "GetVersion", !.self = self,
                               !.result = GetVersion_Result,
                               !.refBefore = heap[self].refCount,
                               !.allocBefore = Cardinality(Allocated(heap))]
       IN  /\ last' = c
           /\ script' = Advance(script, c)
    /\ UNCHANGED <<heap, claims, pc, tally>>

\* AvgGlGpu::Create: allocate the context, bind every required entry point
\* through the resolver; Ready with one claim for the caller when all resolve,
\* otherwise Failed, deleted, and nothing written to the output slot.
AvgGlGpu_Create(gles, resolver) ==
    LET c == [ComObject_ctor("AvgGlGpu") EXCEPT !.gles = gles, !.init = "Initializing"]
    IN  IF RequiredProcs \subseteq resolver
        THEN [hr |-> 0, written |-> TRUE,
              obj |-> ComObject_AddRef([c EXCEPT !.init = "Ready"])]
        ELSE [hr |-> E_FAIL, written |-> FALSE,
              obj |-> Deleted([c EXCEPT !.init = "Failed"])]

\* Faulty variant: Create is called and its status dropped, 0 returned instead.
CreateGlGpu_DropsStatus(gles, resolver) ==
    [AvgGlGpu_Create(gles, resolver) EXCEPT !.hr = 0]

\* AvgFactory::CreateGlGpu: return AvgGlGpu::Create(gles, glGetProcAddress, ppv).
CreateGlGpu_Result(gles, resolver) == AvgGlGpu_Create(gles, resolver)

CreateGlGpu(self, gles, resolver, slot0) ==
    /\ HostHolds(self) /\ heap[self].kind = "AvgFactory"
    /\ HasFree(heap)
    /\ LET id == NextId(heap)
           r == CreateGlGpu_Result(gles, resolver)
           c == [NoCall EXCEPT !.op = "CreateGlGpu", !.self = self,
                               !.gles = gles, !.resolver = resolver,
                               !.result = r.hr, !.made = id,
                               !.slotBefore = slot0,
                               !.slotAfter = IF r.written THEN id ELSE slot0,
                               !.refBefore = heap[self].refCount,
                               !.allocBefore = Cardinality(Allocated(heap))]
       IN  /\ heap' = [heap EXCEPT ![id] = r.obj]
           /\ claims' = IF r.written THEN [claims EXCEPT ![id] = 1] ELSE claims
           /\ last' = c
           /\ script' = Advance(script, c)
    /\ UNCHANGED <<pc, tally>>

\* dynamic_cast<AvgGlGpu*>(gpu): the pointer itself when the object is an
\* AvgGlGpu, nullptr for a null pointer and for any other IAvgGpu.
dynamic_cast_AvgGlGpu(h, gpu) ==
    IF gpu \in Ids /\ h[gpu].kind = "AvgGlGpu" THEN gpu ELSE nullptr

\* The constructor of AvgGlRenderTarget: keeps the context pointer without a
\* claim on it and wraps the surface.
AvgGlRenderTarget_ctor(g, gl) ==
    [ComObject_ctor("AvgGlRenderTarget") EXCEPT !.gpu = g, !.surface = gl]

\* The destructor of AvgGlRenderTarget: gives up the surface binding and leaves
\* the context alone.
AvgGlRenderTarget_dtor(h, o) == h

\* Faulty variant: the result of the dynamic_cast is not tested.
CreateGlGpuRenderTarget_NoNarrowCheck(h, gpu, gl) ==
    IF gl = nullptr
    THEN [hr |-> E_INVALIDARG, made |-> FALSE, g |-> nullptr]
    ELSE [hr |-> 0, made |-> TRUE, g |-> dynamic_cast_AvgGlGpu(h, gpu)]

\* Faulty variant: the surface is not tested.
CreateGlGpuRenderTarget_NoSurfaceCheck(h, gpu, gl) ==
    LET g == dynamic_cast_AvgGlGpu(h, gpu)
    IN  IF g = nullptr
        THEN [hr |-> E_INVALIDARG, made |-> FALSE, g |-> nullptr]
        ELSE [hr |-> 0, made |-> TRUE, g |-> g]

\* AvgFactory::CreateGlGpuRenderTarget, the checks of lines 19-23: the status
\* returned, whether line 24 is reached, and the narrowed context.
CreateGlGpuRenderTarget_Result(h, gpu, gl) ==
    LET g == dynamic_cast_AvgGlGpu(h, gpu)
    IN  IF g = nullptr
        THEN [hr |-> E_INVALIDARG, made |-> FALSE, g |-> nullptr]
        ELSE IF gl = nullptr
        THEN [hr |-> E_INVALIDARG, made |-> FALSE, g |-> nullptr]
        ELSE [hr |-> 0, made |-> TRUE, g |-> g]

\* Faulty variant: the render target takes a claim on the context.
NewRenderTarget_AddRefsGpu(h, id, g, gl) ==
    [i \in Ids |->
        IF i = id THEN AvgGlRenderTarget_ctor(g, gl)
        ELSE IF i = g THEN ComObject_AddRef(h[i])
        ELSE h[i]]

\* Line 24: *ppv = new AvgGlRenderTarget(g, gl).  No AddRef is called on the
\* new object and none on the context.
NewRenderTarget(h, id, g, gl) ==
    [h EXCEPT ![id] = AvgGlRenderTarget_ctor(g, gl)]

CreateGlGpuRenderTarget(self, gpu, gl, slot0) ==
    /\ HostHolds(self) /\ heap[self].kind = "AvgFactory"
    /\ gpu \in Ids => heap[gpu].kind = "AvgGlGpu" /\ HostHolds(gpu)
    /\ LET r == CreateGlGpuRenderTarget_Result(heap, gpu, gl)
           id == IF r.made THEN NextId(heap) ELSE nullptr
           c == [NoCall EXCEPT !.op = "CreateGlGpuRenderTarget", !.self = self,
                               !.gpu = gpu, !.gl = gl,
                               !.result = r.hr, !.made = id,
                               !.slotBefore = slot0,
                               !.slotAfter = IF r.made THEN id ELSE slot0,
                               !.refBefore = heap[self].refCount,
                               !.gpuRefBefore =
                                   IF gpu \in Ids THEN heap[gpu].refCount ELSE 0,
                               !.allocBefore = Cardinality(Allocated(heap))]
       IN  /\ r.made => HasFree(heap)
           /\ heap' = IF r.made THEN NewRenderTarget(heap, id, r.g, gl) ELSE heap
           /\ claims' = IF r.made THEN [claims EXCEPT ![id] = 1] ELSE claims
           /\ last' = c
           /\ script' = Advance(script, c)
    /\ UNCHANGED <<pc, tally>>

\* --------------------------------------------- IUnknown, called by the host
\* The count of the context a render target points at (0 when there is none).
GpuRefOf(h, o) ==
    IF h[o].kind = "AvgGlRenderTarget" /\ h[o].gpu \in Ids
    THEN h[h[o].gpu].refCount ELSE 0

AddRef(o) ==
    /\ HostHolds(o) /\ claims[o] < MaxClaims
    /\ LET after == ComObject_AddRef(heap[o])
           c == [NoCall EXCEPT !.op = "AddRef", !.self = o,
                               !.result = after.refCount,
                               !.refBefore = heap[o].refCount,
                               !.gpuRefBefore = GpuRefOf(heap, o),
                               !.allocBefore = Cardinality(Allocated(heap))]
       IN  /\ heap' = [heap EXCEPT ![o] = after]
           /\ claims' = [claims EXCEPT ![o] = @ + 1]
           /\ last' = c
           /\ script' = Advance(script, c)
    /\ UNCHANGED <<pc, tally>>

\* Release, with the destructor of the concrete class run on deletion.
ReleaseHeap(h, o) ==
    LET after == [h EXCEPT ![o] = ComObject_Release(h[o])]
    IN  IF after[o].state = "deleted" /\ h[o].kind = "AvgGlRenderTarget"
        THEN AvgGlRenderTarget_dtor(after, o)
        ELSE after

Release(o) ==
    /\ HostHolds(o)
    /\ LET after == ReleaseHeap(heap, o)
           c == [NoCall EXCEPT !.op = "Release", !.self = o,
                               !.gpu = IF heap[o].kind = "AvgGlRenderTarget"
                                       THEN heap[o].gpu ELSE nullptr,
                               !.result = after[o].refCount,
                               !.refBefore = heap[o].refCount,
                               !.gpuRefBefore = GpuRefOf(heap, o),
                               !.allocBefore = Cardinality(Allocated(heap))]
       IN  /\ heap' = after
           /\ claims' = [claims EXCEPT ![o] = @ - 1]
           /\ last' = c
           /\ script' = Advance(script, c)
    /\ UNCHANGED <<pc, tally>>

\* ComObject::QueryInterface: for an identifier of the object's interface map,
\* AddRef and hand out the object; otherwise E_NOINTERFACE and no handle.
ComObject_QueryInterface(obj, iid) ==
    IF iid \in InterfaceMap(obj.kind)
    THEN [hr |-> 0, written |-> TRUE, obj |-> ComObject_AddRef(obj)]
    ELSE [hr |-> E_NOINTERFACE, written |-> FALSE, obj |-> obj]

QueryInterface(o, iid, slot0) ==
    /\ HostHolds(o) /\ claims[o] < MaxClaims
    /\ LET r == ComObject_QueryInterface(heap[o], iid)
           c == [NoCall EXCEPT !.op = "QueryInterface", !.self = o, !.iid = iid,
                               !.result = r.hr,
                               !.slotBefore = slot0,
                               !.slotAfter = IF r.written THEN o ELSE slot0,
                               !.refBefore = heap[o].refCount,
                               !.gpuRefBefore = GpuRefOf(heap, o),
                               !.allocBefore = Cardinality(Allocated(heap))]
       IN  /\ heap' = [heap EXCEPT ![o] = r.obj]
           /\ claims' = IF r.written THEN [claims EXCEPT ![o] = @ + 1] ELSE claims
           /\ last' = c
           /\ script' = Advance(script, c)
    /\ UNCHANGED <<pc, tally>>

\* ------------------------------------------------------------ the program
Init ==
    /\ heap = [i \in Ids |-> NoObject]
    /\ claims = [i \in Ids |-> 0]
    /\ last = NoCall
    /\ script = ScriptStart
    /\ pc = [t \in Threads |-> Idle]
    /\ tally = [i \in Ids |-> NoTally]

\* What the caller's output slot holds before a call.
SlotValues == {StaleHandle}

Next ==
    \/ CreateAvaloniaNativeGraphics
    \/ \E self \in Ids : GetVersion(self)
    \/ \E self \in Ids, gles \in BOOLEAN, resolver \in Resolvers, slot0 \in SlotValues :
          CreateGlGpu(self, gles, resolver, slot0)
    \/ \E self \in Ids, gpu \in Ids \cup {nullptr, ForeignGpu},
          gl \in Surfaces \cup {nullptr}, slot0 \in SlotValues :
          CreateGlGpuRenderTarget(self, gpu, gl, slot0)
    \/ \E o \in Ids : AddRef(o)
    \/ \E o \in Ids : Release(o)
    \/ \E o \in Ids, iid \in IIDs, slot0 \in SlotValues : QueryInterface(o, iid, slot0)

Spec == Init /\ [][Next]_vars

\* ------------------------------------- reference counting from many threads
\* The threads with a call of the given kind in flight on object o.
InFlight(o, op) == {t \in Threads : pc[t].op = op /\ pc[t].obj = o}

\* A thread may call AddRef through a claim that is not being released.
BeginAddRef(t, o) ==
    /\ pc[t] = Idle
    /\ heap[o].state = "live"
    /\ claims[o] - Cardinality(InFlight(o, "Release")) > 0
    /\ tally[o].incs + Cardinality(InFlight(o, "AddRef")) < MaxClaims
    /\ pc' = [pc EXCEPT ![t] = [op |-> "AddRef", obj |-> o, seen |-> heap[o].refCount]]
    /\ UNCHANGED <<heap, claims, last, script, tally>>

\* A thread may release a claim of its own: one no other thread is releasing
\* and no AddRef in flight is being made through.
BeginRelease(t, o) ==
    /\ pc[t] = Idle
    /\ heap[o].state = "live"
    /\ claims[o] - Cardinality(InFlight(o, "Release"))
          - (IF InFlight(o, "AddRef") = {} THEN 0 ELSE 1) > 0
    /\ pc' = [pc EXCEPT ![t] = [op |-> "Release", obj |-> o, seen |-> heap[o].refCount]]
    /\ UNCHANGED <<heap, claims, last, script, tally>>

\* The increment of an AddRef in flight takes effect.
CommitAddRef(t) ==
    /\ pc[t].op = "AddRef"
    /\ LET o == pc[t].obj
       IN  /\ heap' = [heap EXCEPT ![o].refCount =
                          InterlockedAdd(heap[o].refCount, pc[t].seen, 1)]
           /\ claims' = [claims EXCEPT ![o] = @ + 1]
           /\ tally' = [tally EXCEPT ![o].incs = @ + 1]
    /\ pc' = [pc EXCEPT ![t] = Idle]
    /\ UNCHANGED <<last, script>>

\* The decrement of a Release in flight takes effect, with the deletion it
\* brings when it is the one that observes zero.
CommitRelease(t) ==
    /\ pc[t].op = "Release"
    /\ LET o == pc[t].obj
       IN  /\ heap' = [heap EXCEPT ![o] = ReleaseAt(heap[o], pc[t].seen)]
           /\ claims' = [claims EXCEPT ![o] = @ - 1]
           /\ tally' = [tally EXCEPT ![o].decs = @ + 1]
    /\ pc' = [pc EXCEPT ![t] = Idle]
    /\ UNCHANGED <<last, script>>

\* A concurrent run starts from a factory the entry point returned and on which
\* the host holds b claims, shared among its threads.
InitConc ==
    \E b \in 1..MaxClaims :
        /\ heap = [i \in Ids |->
                      IF i = 1 THEN [EntryPointObject EXCEPT !.refCount = b]
                      ELSE NoObject]
        /\ claims = [i \in Ids |-> IF i = 1 THEN b ELSE 0]
        /\ tally = [i \in Ids |-> IF i = 1 THEN [NoTally EXCEPT !.base = b] ELSE NoTally]
        /\ last = NoCall
        /\ script = ScriptStart
        /\ pc = [t \in Threads |-> Idle]

NextConc ==
    \/ \E t \in Threads, o \in Ids : BeginAddRef(t, o)
    \/ \E t \in Threads, o \in Ids : BeginRelease(t, o)
    \/ \E t \in Threads : CommitAddRef(t)
    \/ \E t \in Threads : CommitRelease(t)

SpecConc == InitConc /\ [][NextConc]_vars

\* ================================================================ claims
NumAllocated == Cardinality(Allocated(heap))

\* The last call left the heap without a new object and the output slot as it was.
NothingMade ==
    /\ last.made = nullptr
    /\ NumAllocated = last.allocBefore
    /\ last.slotAfter = last.slotBefore

\* C1: a CreateGlGpuRenderTarget call whose context argument does not narrow to
\* AvgGlGpu (a null context, or a context of another backend family), whatever
\* the surface is, returns E_INVALIDARG, constructs no render target and leaves
\* the caller's output slot as it was.
C1_MismatchedContextRejected ==
    (last.op = "CreateGlGpuRenderTarget"
        /\ dynamic_cast_AvgGlGpu(heap, last.gpu) = nullptr)
    => (last.result = E_INVALIDARG /\ NothingMade)

C1_Witness ==
    /\ last.op = "CreateGlGpuRenderTarget"
    /\ last.gpu = ForeignGpu
    /\ last.gl # nullptr
    /\ last.result = E_INVALIDARG
    /\ last.slotAfter = StaleHandle

\* C2: a CreateGlGpuRenderTarget call with a valid GL context and a null
\* surface returns E_INVALIDARG, constructs no render target and leaves the
\* caller's output slot as it was.
C2_NullSurfaceRejected ==
    (last.op = "CreateGlGpuRenderTarget"
        /\ dynamic_cast_AvgGlGpu(heap, last.gpu) # nullptr
        /\ last.gl = nullptr)
    => (last.result = E_INVALIDARG /\ NothingMade)

C2_Witness ==
    /\ last.op = "CreateGlGpuRenderTarget"
    /\ last.gpu \in Ids
    /\ heap[last.gpu].kind = "AvgGlGpu"
    /\ last.gl = nullptr
    /\ last.result = E_INVALIDARG
    /\ last.slotAfter = StaleHandle

\* C3: every call of CreateAvaloniaNativeGraphics returns a newly created
\* factory whose count is exactly 1 at return, and a factory on which the host
\* holds no claim any more has been destroyed.
C3_EntryPointReturnsOneClaim ==
    /\ last.op = "CreateAvaloniaNativeGraphics" =>
          /\ last.made \in Ids
          /\ last.result = last.made
          /\ NumAllocated = last.allocBefore + 1
          /\ heap[last.made].kind = "AvgFactory"
          /\ heap[last.made].state = "live"
          /\ heap[last.made].refCount = 1
    /\ \A o \in Ids :
          (heap[o].kind = "AvgFactory" /\ claims[o] = 0) => heap[o].state = "deleted"

C3_Witness ==
    /\ last.op = "CreateAvaloniaNativeGraphics"
    /\ last.allocBefore >= 1
    /\ \E o \in Ids : heap[o].kind = "AvgFactory" /\ heap[o].state = "deleted"

\* C4: every CreateGlGpuRenderTarget call with a valid GL context and a
\* non-null surface returns 0 and writes a handle to a new render target whose
\* count is exactly 1 at return.
C4_RenderTargetReturnedWithOneClaim ==
    (last.op = "CreateGlGpuRenderTarget"
        /\ dynamic_cast_AvgGlGpu(heap, last.gpu) # nullptr
        /\ last.gl # nullptr)
    => /\ last.result = 0
       /\ last.made \in Ids
       /\ last.slotAfter = last.made
       /\ NumAllocated = last.allocBefore + 1
       /\ heap[last.made].kind = "AvgGlRenderTarget"
       /\ heap[last.made].refCount = 1

\* C5: a render target holds no claim on its context: a CreateGlGpuRenderTarget
\* call, successful or not, leaves the context's count unchanged; a Release of
\* a render target, deleting or not, leaves the context's count unchanged; and
\* a context on which the host holds no claim any more has been destroyed,
\* whatever render targets still point at it.
C5_ContextNotOwnedByRenderTarget ==
    /\ (last.op = "CreateGlGpuRenderTarget" /\ last.gpu \in Ids) =>
          heap[last.gpu].refCount = last.gpuRefBefore
    /\ (last.op = "Release" /\ last.gpu \in Ids) =>
          heap[last.gpu].refCount = last.gpuRefBefore
    /\ \A o \in Ids :
          (heap[o].kind = "AvgGlGpu" /\ claims[o] = 0) => heap[o].state = "deleted"

C5_Witness ==
    \E r \in Ids :
        /\ heap[r].kind = "AvgGlRenderTarget"
        /\ heap[r].state = "live"
        /\ heap[r].gpu \in Ids
        /\ heap[heap[r].gpu].state = "deleted"
        /\ last.op = "Release"
        /\ last.self = heap[r].gpu

\* C6: every boundary object is destroyed exactly once, by the Release that
\* brings its count to zero: a deleted object was deleted once, a Release that
\* deletes found the count at 1, and no object stays alive once the host has
\* released every claim on it.
C6_DestroyedExactlyOnceAtZero ==
    /\ \A o \in Ids :
          /\ heap[o].state = "deleted" => heap[o].deletes = 1
          /\ (heap[o].state # "unallocated" /\ claims[o] = 0) =>
                heap[o].state = "deleted"
    /\ (last.op = "Release" /\ heap[last.self].state = "deleted") =>
          last.refBefore = 1

\* C7: a capability query for an identifier the object implements returns a
\* non-null handle and raises the count by exactly one (the factory implements
\* the factory identifier); a query for any other identifier returns a
\* negative result, yields no handle and leaves the count unchanged.
C7_QueryInterfaceCounts ==
    last.op = "QueryInterface" =>
        LET o == last.self
        IN  /\ (heap[o].kind = "AvgFactory" /\ last.iid = "IID_IAvgFactory") =>
                  last.result = 0
            /\ IF last.iid \in InterfaceMap(heap[o].kind)
               THEN /\ last.result = 0
                    /\ last.slotAfter = o
                    /\ last.slotAfter # nullptr
                    /\ heap[o].refCount = last.refBefore + 1
               ELSE /\ last.result < 0
                    /\ last.slotAfter = last.slotBefore
                    /\ heap[o].refCount = last.refBefore

C7_Witness ==
    /\ last.op = "QueryInterface"
    /\ heap[last.self].kind = "AvgFactory"
    /\ last.iid = "IID_IAvgFactory"
    /\ last.result = 0
    /\ heap[last.self].refCount = 2

\* C8: CreateGlGpu returns the outcome of the context's construction: with a
\* resolver that fails on a required entry point, a failure status, no handle
\* written and no claim handed out; with a resolver that resolves them all, 0
\* and a handle to a Ready context of the requested profile with count 1.  No
\* context the host holds a claim on is in another state than Ready.
C8_CreateGlGpuOutcome ==
    /\ last.op = "CreateGlGpu" =>
          IF RequiredProcs \subseteq last.resolver
          THEN /\ last.result = 0
               /\ last.slotAfter = last.made
               /\ heap[last.made].kind = "AvgGlGpu"
               /\ heap[last.made].state = "live"
               /\ heap[last.made].init = "Ready"
               /\ heap[last.made].gles = last.gles
               /\ heap[last.made].refCount = 1
               /\ claims[last.made] = 1
          ELSE /\ last.result < 0
               /\ last.slotAfter = last.slotBefore
               /\ heap[last.made].state # "live"
               /\ claims[last.made] = 0
    /\ \A o \in Ids :
          (heap[o].kind = "AvgGlGpu" /\ claims[o] > 0) => heap[o].init = "Ready"

C8_Witness ==
    /\ last.op = "CreateGlGpu"
    /\ ~(RequiredProcs \subseteq last.resolver)
    /\ last.result = E_FAIL
    /\ heap[last.made].init = "Failed"
    /\ last.slotAfter = StaleHandle

C10_EndToEndReleasesEverything ==
    /\ last.op = "GetVersion" =>
          /\ last.result = 0
          /\ NumAllocated = last.allocBefore
          /\ heap[last.self].refCount = last.refBefore
    /\ script.stage = "done" =>
          /\ \A o \in {script.f, script.g, script.r} :
                heap[o].state = "deleted" /\ heap[o].refCount = 0
          /\ Live(heap) = {}

====
